---- MODULE Spec2Model ----
(***************************************************************************)
(* Model of the digit-recognition web service (app.py) and of the network  *)
(* it serves (train_model.py).                                             *)
(*                                                                         *)
(* State: the model handle, the artifact on disk, the position of the      *)
(* process (booting / serving / in the predict handler), the last request  *)
(* and response and the locals of the handler that produced it.  One       *)
(* action per route and per startup step.                                  *)
(***************************************************************************)
EXTENDS Integers, Sequences, FiniteSets, TLC

\* A Python list or numpy array: the values of f, each computed once.
Array(f) == f \o <<>>

Min(a, b) == IF a < b THEN a ELSE b
Max(a, b) == IF a > b THEN a ELSE b

(***************************************************************************)
(* np.linspace(0, n-1, 64, dtype=int)                                      *)
(*                                                                         *)
(* numpy computes step = (n-1)/63 and y[k] = k*step in IEEE-754 binary64,  *)
(* overwrites the last point with n-1 and takes the floor.  The two        *)
(* roundings (of the quotient and of each product, both to 53 significant  *)
(* bits, nearest-even) are carried out here exactly: a binary64 value is   *)
(* held as an integer part and a 60-bit binary fraction in four 15-bit     *)
(* limbs, most significant first.                                          *)
(***************************************************************************)
SampleCap == 64
Mantissa == 53
LimbBits == 15
NumLimbs == 4
Base == 2^LimbBits

RECURSIVE BitLen(_)
BitLen(x) == IF x = 0 THEN 0 ELSE 1 + BitLen(x \div 2)

\* How many of the bits of limb i lie among the first s fraction bits.
TopBits(i, s) == Min(LimbBits, Max(0, s - LimbBits * (i - 1)))

\* Bit j (1 = most significant) of a fraction.
FracBit(G, j) ==
    IF j < 1 \/ j > LimbBits * NumLimbs THEN 0
    ELSE (G[((j - 1) \div LimbBits) + 1]
            \div 2^(LimbBits - 1 - ((j - 1) % LimbBits))) % 2

\* The fraction cut to its first s bits.
FracTrunc(G, s) ==
    [i \in 1..NumLimbs |->
        (G[i] \div 2^(LimbBits - TopBits(i, s))) * 2^(LimbBits - TopBits(i, s))]

\* Some bit after the first s is set.
FracSticky(G, s) ==
    \E i \in 1..NumLimbs : G[i] % 2^(LimbBits - TopBits(i, s)) # 0

\* The first s bits are all ones.
FracAllOnes(G, s) ==
    \A i \in 1..NumLimbs :
        G[i] \div 2^(LimbBits - TopBits(i, s)) = 2^TopBits(i, s) - 1

\* The 60-bit expansion of r/div (r < div) by long division, a limb at a
\* time, and the remainder left after it.
RECURSIVE LongDiv(_, _, _)
LongDiv(r, div, i) ==
    IF i = 0 THEN [limbs |-> <<>>, rem |-> r]
    ELSE LET rest == LongDiv((r * Base) % div, div, i - 1)
         IN  [limbs |-> <<(r * Base) \div div>> \o rest.limbs, rem |-> rest.rem]

\* Limb-wise sum of two fractions, from the least significant limb up.
RECURSIVE AddFrom(_, _, _, _)
AddFrom(G, A, i, c) ==
    IF i = 0 THEN [limbs |-> <<>>, carry |-> c]
    ELSE LET v  == G[i] + A[i] + c
             hi == AddFrom(G, A, i - 1, v \div Base)
         IN  [limbs |-> Append(hi.limbs, v % Base), carry |-> hi.carry]

\* Limb-wise product of a fraction and a small integer.
RECURSIVE MulFrom(_, _, _, _)
MulFrom(G, k, i, c) ==
    IF i = 0 THEN [limbs |-> <<>>, carry |-> c]
    ELSE LET v  == G[i] * k + c
             hi == MulFrom(G, k, i - 1, v \div Base)
         IN  [limbs |-> Append(hi.limbs, v % Base), carry |-> hi.carry]

\* One unit in fraction bit s.
Ulp(s) ==
    [i \in 1..NumLimbs |->
        IF ((s - 1) \div LimbBits) + 1 = i
        THEN 2^(LimbBits - 1 - ((s - 1) % LimbBits)) ELSE 0]

\* fl(delta / div) for delta >= div: the quotient rounded to 53 significant
\* bits (nearest, ties to even), as int + frac / 2^60.
FloatDiv(delta, div) ==
    LET q  == delta \div div
        e  == LongDiv(delta % div, div, NumLimbs)
        s  == Mantissa - BitLen(q)
        t  == FracTrunc(e.limbs, s)
        up == /\ FracBit(e.limbs, s + 1) = 1
              /\ \/ FracSticky(e.limbs, s + 1)
                 \/ e.rem # 0
                 \/ FracBit(e.limbs, s) = 1
        a  == AddFrom(t, Ulp(s), NumLimbs, 0)
    IN  IF up THEN [int |-> q + a.carry, frac |-> a.limbs]
        ELSE [int |-> q, frac |-> t]

\* floor(fl(k * x)) for an integer 0 <= k < 64 and a binary64 x >= 1: the
\* exact product, rounded to 53 significant bits, then its integer part.
FloatMulFloor(k, x) ==
    IF k = 0 THEN 0
    ELSE LET p  == MulFrom(x.frac, k, NumLimbs, 0)
             J  == k * x.int + p.carry
             s  == Mantissa - BitLen(J)
             up == /\ FracBit(p.limbs, s + 1) = 1
                   /\ \/ FracSticky(p.limbs, s + 1)
                      \/ FracBit(p.limbs, s) = 1
         IN  IF up /\ FracAllOnes(p.limbs, s) THEN J + 1 ELSE J

\* np.linspace(start=0, stop, num, dtype=int) for stop >= num - 1 >= 1:
\* y[k] = k * step, the last point set to stop, then the floor of each.
Linspace(stop, num) ==
    LET step == FloatDiv(stop, num - 1)
    IN  Array([k \in 1..num |->
            IF k = num THEN stop ELSE FloatMulFloor(k - 1, step)])

(***************************************************************************)
(* Request bodies.                                                         *)
(*                                                                         *)
(* A string is a sequence of tokens: the marker "base64,", one base64      *)
(* data character "A", the pad "=", one character "!" outside the base64   *)
(* alphabet, and "img": the unpadded base64 text of the image file the     *)
(* request carries (a whole number of 4-character groups).                 *)
(***************************************************************************)
MaxText == 2
Marker == "base64,"
Tokens == {Marker, "A", "=", "!", "img"}
Texts == UNION {[1..n -> Tokens] : n \in 0..MaxText}

\* 'base64,' in image_data
HasMarker(s) == \E i \in 1..Len(s) : s[i] = Marker

\* image_data.split('base64,')[1]: the text between the first marker and the
\* next one (or the end).
RECURSIVE UpToMarker(_)
UpToMarker(s) ==
    IF s = <<>> \/ Head(s) = Marker THEN <<>>
    ELSE <<Head(s)>> \o UpToMarker(Tail(s))

RECURSIVE AfterMarker(_)
AfterMarker(s) ==
    IF Head(s) = Marker THEN Tail(s) ELSE AfterMarker(Tail(s))

StripPrefix(image_data) ==
    IF HasMarker(image_data) THEN UpToMarker(AfterMarker(image_data))
    ELSE image_data

\* base64.b64decode(image_data): binascii.a2b_base64 without strict mode.
\* quad is the position in the current 4-character group, pads the pads seen
\* since the last data character, len the bytes written, file whether the
\* bytes written so far begin with the whole image file, bytes the length of
\* that file.
IncorrectPadding == "Incorrect padding"

\* The message for one data character left over; it carries the number of
\* data characters.
InvalidLength(count) ==
    "Invalid base64-encoded string: number of data characters ("
        \o ToString(count)
        \o ") cannot be 1 more than a multiple of 4"

RECURSIVE A2B(_, _, _, _, _, _)
A2B(s, quad, pads, len, file, bytes) ==
    IF s = <<>>
    THEN IF quad = 0 THEN [ok |-> TRUE, len |-> len, file |-> file, errmsg |-> ""]
         ELSE [ok |-> FALSE, len |-> len, file |-> file,
               \* the count is (bin_data - bin_data_start) / 3 * 4 + 1
               errmsg |-> IF quad = 1 THEN InvalidLength((len \div 3) * 4 + 1)
                          ELSE IncorrectPadding]
    ELSE LET c == Head(s) IN
         CASE c = "=" ->
                IF quad >= 2 /\ quad + pads + 1 >= 4
                THEN [ok |-> TRUE, len |-> len, file |-> file, errmsg |-> ""]
                ELSE A2B(Tail(s), quad, IF quad >= 2 THEN pads + 1 ELSE pads,
                         len, file, bytes)
           [] c = "A" ->
                A2B(Tail(s), (quad + 1) % 4, 0,
                    IF quad = 0 THEN len ELSE len + 1, file, bytes)
           [] c = "img" ->
                A2B(Tail(s), quad, 0, len + bytes,
                    file \/ (len = 0 /\ quad = 0), bytes)
           [] OTHER -> A2B(Tail(s), quad, pads, len, file, bytes)

b64decode(s, bytes) == A2B(s, 0, 0, 0, FALSE, bytes)

(***************************************************************************)
(* Images.  A raster is what the image file of a request decodes to: a     *)
(* mode, a size and its pixels, either one colour throughout or strokes of  *)
(* ink on a background (every fourth pixel of a row, shifted by col from    *)
(* one row to the next).  A colour is <<R, G, B>> (for mode L the three are *)
(* equal); a raster that is not intact is a file cut short.  bytes is the   *)
(* length of the file, a multiple of 3 as its base64 text has no padding.   *)
(***************************************************************************)
Side == 28
NumStrokes == 2
White == <<255, 255, 255>>
Black == <<0, 0, 0>>
Grey  == <<128, 128, 128>>
Red   == <<255, 0, 0>>
Blue  == <<0, 0, 255>>

Rasters ==
    {[mode |-> "L", size |-> <<z, z>>, bg |-> c, ink |-> c, col |-> 0,
      intact |-> TRUE, bytes |-> IF z = Side THEN 93 ELSE 282] :
        z \in {Side, 280}, c \in {White, Black}}
    \cup
    {[mode |-> "RGB", size |-> <<280, 280>>, bg |-> Red, ink |-> Red, col |-> 0,
      intact |-> TRUE, bytes |-> 282]}
    \cup
    {[mode |-> "RGBA", size |-> <<280, 280>>, bg |-> c, ink |-> c, col |-> 0,
      intact |-> TRUE, bytes |-> 282] : c \in {White, Blue}}
    \cup
    {[mode |-> "RGBA", size |-> <<Side, Side>>, bg |-> White, ink |-> c, col |-> k,
      intact |-> TRUE, bytes |-> 171] : c \in {Black, Blue}, k \in 1..NumStrokes}
    \cup
    {[mode |-> "L", size |-> <<Side, Side>>, bg |-> White, ink |-> Grey, col |-> k,
      intact |-> TRUE, bytes |-> 171] : k \in 1..NumStrokes}
    \cup
    {[mode |-> "RGBA", size |-> <<280, 280>>, bg |-> White, ink |-> White,
      col |-> 0, intact |-> FALSE, bytes |-> 141]}

\* The colour of pixel (row, column), both from 0.
PixelAt(raster, r, c) ==
    IF raster.col # 0 /\ (c + r * raster.col) % 4 = 0 THEN raster.ink ELSE raster.bg

\* Image.convert('L'): ITU-R 601-2 luma in 16-bit fixed point; a mode L pixel
\* is kept; the alpha of RGBA is dropped.
Luma(mode, rgb) ==
    IF mode = "L" THEN rgb[1]
    ELSE (rgb[1] * 19595 + rgb[2] * 38470 + rgb[3] * 7471 + 32768) \div 65536

\* image.resize((28, 28), LANCZOS) of the grey image: a copy when the size is
\* already 28x28; otherwise, for an image of one colour, that colour (the
\* filter's weights are normalised).  The result is the 784 pixels row by row.
Resize(raster) ==
    Array([i \in 1..(Side * Side) |->
        LET r == (i - 1) \div Side
            c == (i - 1) % Side
        IN  IF raster.size = <<Side, Side>> THEN Luma(raster.mode, PixelAt(raster, r, c))
            ELSE Luma(raster.mode, raster.bg)])

\* The inversion left out.
InvertOmitted(a) == a

\* 1.0 - value on an array whose values are held as numerators over 255.
Invert(a) == Array([i \in DOMAIN a |-> 255 - a[i]])

\* np.array(image).astype('float32') / 255.0: pixel p becomes p/255, held as
\* the numerator p.
Normalize(pixels) == Array([i \in DOMAIN pixels |-> pixels[i]])

\* np.expand_dims(image_array, axis=(0, -1))
ExpandDims(a) == [shape |-> <<1, Side, Side, 1>>, data |-> a]

CannotIdentify == "cannot identify image file"
Truncated == "image file is truncated"

\* preprocess_image(image_data): the tensor, or the exception raised.
preprocess_image(image_data, raster) ==
    LET d == b64decode(StripPrefix(image_data), raster.bytes) IN
    IF ~d.ok THEN [ok |-> FALSE, errmsg |-> d.errmsg]
    ELSE IF ~d.file THEN [ok |-> FALSE, errmsg |-> CannotIdentify]
    ELSE IF ~raster.intact THEN [ok |-> FALSE, errmsg |-> Truncated]
    ELSE LET image == Resize(raster)
         IN  [ok |-> TRUE, errmsg |-> "", image |-> image,
              tensor |-> ExpandDims(Invert(Normalize(image)))]

(***************************************************************************)
(* The network.  A model is its sequence of layers (model.layers, which    *)
(* leaves the Input layer out); a layer has a name (a sequence of          *)
(* characters), a kind, its units or filters and a seed standing for its   *)
(* trained weights.  A tensor is a shape and its values in row-major order. *)
(***************************************************************************)
\* create_model(): the layers as Keras names them.
create_model ==
    <<[name |-> <<"c", "o", "n", "v", "2", "d">>,
     kind |-> "conv2d", units |-> 32, seed |-> 1],
      [name |-> <<"m", "a", "x", "_", "p", "o", "o", "l", "i", "n", "g", "2", "d">>,
     kind |-> "max_pooling2d", units |-> 0, seed |-> 0],
      [name |-> <<"c", "o", "n", "v", "2", "d", "_", "1">>,
     kind |-> "conv2d", units |-> 64, seed |-> 2],
      [name |-> <<"m", "a", "x", "_", "p", "o", "o", "l", "i", "n", "g", "2", "d", "_", "1">>,
     kind |-> "max_pooling2d", units |-> 0, seed |-> 0],
      [name |-> <<"c", "o", "n", "v", "2", "d", "_", "2">>,
     kind |-> "conv2d", units |-> 64, seed |-> 3],
      [name |-> <<"f", "l", "a", "t", "t", "e", "n">>,
     kind |-> "flatten", units |-> 0, seed |-> 0],
      [name |-> <<"d", "r", "o", "p", "o", "u", "t">>,
     kind |-> "dropout", units |-> 0, seed |-> 0],
      [name |-> <<"d", "e", "n", "s", "e">>,
     kind |-> "dense", units |-> 64, seed |-> 4],
      [name |-> <<"d", "r", "o", "p", "o", "u", "t", "_", "1">>,
     kind |-> "dropout", units |-> 0, seed |-> 0],
      [name |-> <<"d", "e", "n", "s", "e", "_", "1">>,
     kind |-> "dense", units |-> 10, seed |-> 5]>>

\* Two other networks meeting the same input/output contract, as another
\* training script could save them under MODEL_PATH: a perceptron, and one
\* whose layer names do not follow their kinds.
perceptron ==
    <<[name |-> <<"f", "l", "a", "t", "t", "e", "n">>,
     kind |-> "flatten", units |-> 0, seed |-> 0],
      [name |-> <<"d", "e", "n", "s", "e">>,
     kind |-> "dense", units |-> 154, seed |-> 3],
      [name |-> <<"d", "r", "o", "p", "o", "u", "t">>,
     kind |-> "dropout", units |-> 0, seed |-> 0],
      [name |-> <<"d", "e", "n", "s", "e", "_", "1">>,
     kind |-> "dense", units |-> 65, seed |-> 2],
      [name |-> <<"d", "e", "n", "s", "e", "_", "2">>,
     kind |-> "dense", units |-> 10, seed |-> 1]>>

renamed ==
    <<[name |-> <<"p", "o", "o", "l">>,
     kind |-> "max_pooling2d", units |-> 0, seed |-> 0],
      [name |-> <<"c", "o", "n", "d", "e", "n", "s", "e", "d">>,
     kind |-> "conv2d", units |-> 1, seed |-> 2],
      [name |-> <<"f", "e", "a", "t", "u", "r", "e", "s">>,
     kind |-> "flatten", units |-> 0, seed |-> 0],
      [name |-> <<"h", "i", "d", "d", "e", "n">>,
     kind |-> "dense", units |-> 70, seed |-> 1],
      [name |-> <<"f", "l", "a", "t", "t", "e", "n", "e", "d", "_", "o", "u", "t">>,
     kind |-> "dense", units |-> 10, seed |-> 3]>>

Artifacts == <<create_model, perceptron, renamed>>
NoModel == 0
ModelIds == 1..Len(Artifacts)

RECURSIVE Prod(_)
Prod(shape) == IF shape = <<>> THEN 1 ELSE Head(shape) * Prod(Tail(shape))

\* The shape a layer gives its output.
OutShape(layer, shape) ==
    CASE layer.kind = "conv2d" ->
            <<shape[1], shape[2] - 2, shape[3] - 2, layer.units>>
      [] layer.kind = "max_pooling2d" ->
            <<shape[1], shape[2] \div 2, shape[3] \div 2, shape[4]>>
      [] layer.kind = "flatten" -> <<shape[1], Prod(Tail(shape))>>
      [] layer.kind = "dense" ->
            SubSeq(shape, 1, Len(shape) - 1) \o <<layer.units>>
      [] OTHER -> shape

\* The range of the stand-in kernels.
Levels == 7

\* layer(x, training=False).  Flatten and Dropout (outside training) keep
\* the values; max pooling takes the largest of each 2x2 window; a layer
\* with weights is a fixed function of its input, its seed standing for the
\* weights: every output value reads one input value.
Apply(layer, x) ==
    LET out == OutShape(layer, x.shape)
        n   == Prod(x.shape)
    IN  [shape |-> out,
         data  |->
           CASE layer.kind \in {"flatten", "dropout"} -> x.data
             [] layer.kind = "max_pooling2d" ->
                  [i \in 1..Prod(out) |->
                     LET c == (i - 1) % out[4]
                         w == ((i - 1) \div out[4]) % out[3]
                         h == (i - 1) \div (out[4] * out[3])
                         at(dh, dw) ==
                             x.data[((2 * h + dh) * x.shape[3] + 2 * w + dw)
                                       * x.shape[4] + c + 1]
                     IN  Max(Max(at(0, 0), at(0, 1)), Max(at(1, 0), at(1, 1)))]
             [] OTHER ->
                  [i \in 1..Prod(out) |->
                     (x.data[((i * (layer.seed + 6)) % n) + 1]
                        + ((i * i * layer.seed) % 3)) % Levels]]

\* 'dense' in layer.name or 'flatten' in layer.name
Contains(name, sub) ==
    \E i \in 1..(Len(name) - Len(sub) + 1) :
        SubSeq(name, i, i + Len(sub) - 1) = sub

Captured(name) ==
    \/ Contains(name, <<"d", "e", "n", "s", "e">>)
    \/ Contains(name, <<"f", "l", "a", "t", "t", "e", "n">>)

\* The loop over model.layers: every layer is applied to the output of the
\* one before it, and the outputs of the captured layers are kept in order.
\* The loop calling only the captured layers.
RECURSIVE ReplayCapturedOnly(_, _, _, _)
ReplayCapturedOnly(layers, i, x, acc) ==
    IF i > Len(layers) THEN acc
    ELSE IF Captured(layers[i].name)
         THEN LET y == Apply(layers[i], x)
              IN  ReplayCapturedOnly(layers, i + 1, y,
                      Append(acc, [name |-> layers[i].name, act |-> y]))
         ELSE ReplayCapturedOnly(layers, i + 1, x, acc)

RECURSIVE Replay(_, _, _, _)
Replay(layers, i, x, acc) ==
    IF i > Len(layers) THEN acc
    ELSE LET y == Apply(layers[i], x)
         IN  Replay(layers, i + 1, y,
                    IF Captured(layers[i].name)
                    THEN Append(acc, [name |-> layers[i].name, act |-> y])
                    ELSE acc)

\* The output of the first k layers.
RECURSIVE Forward(_, _, _)
Forward(layers, k, x) ==
    IF k = 0 THEN x ELSE Apply(layers[k], Forward(layers, k - 1, x))

\* model.predict(x, verbose=0)[0]: the scores of the one image of the batch.
Predictions(layers, x) ==
    LET y == Forward(layers, Len(layers), x)
    IN  Array([i \in 1..Prod(Tail(y.shape)) |-> y.data[i]])

\* np.argmax: the first index (from 0) holding the largest value.
RECURSIVE ArgMaxFrom(_, _, _)
ArgMaxFrom(v, i, best) ==
    IF i > Len(v) THEN best - 1
    ELSE ArgMaxFrom(v, i + 1, IF v[i] > v[best] THEN i ELSE best)

\* The last index holding the largest value.
RECURSIVE ArgMaxLastFrom(_, _, _)
ArgMaxLastFrom(v, i, best) ==
    IF i > Len(v) THEN best - 1
    ELSE ArgMaxLastFrom(v, i + 1, IF v[i] >= v[best] THEN i ELSE best)

ArgMaxLast(v) == ArgMaxLastFrom(v, 2, 1)

ArgMax(v) == ArgMaxFrom(v, 2, 1)

\* str(i) for i in range(10)
Str(i) == <<"0", "1", "2", "3", "4", "5", "6", "7", "8", "9">>[i + 1]

\* act[0], flattened when it still has more than one dimension.
DropBatch(act) ==
    LET shape == Tail(act.shape)
    IN  IF Len(shape) > 1 THEN [shape |-> <<Prod(shape)>>, data |-> act.data]
        ELSE [shape |-> shape, data |-> act.data]

\* Every position kept, whatever the length.
IndicesUncapped(n) == Array([k \in 1..n |-> k - 1])

\* The first 64 positions kept: act_array[:64].
IndicesPrefix(n) == Array([k \in 1..Min(n, SampleCap) |-> k - 1])

\* The positions kept of an activation vector of length n.
Indices(n) ==
    IF n > SampleCap THEN Linspace(n - 1, SampleCap)
    ELSE Array([k \in 1..n |-> k - 1])

\* One entry of network_activations.
Sample(name, act) ==
    LET a   == DropBatch(act)
        idx == Indices(a.shape[1])
    IN  [layer |-> name, n |-> a.shape[1], indices |-> idx,
         activations |-> Array([k \in 1..Len(idx) |-> a.data[idx[k] + 1]])]

(***************************************************************************)
(* The process.                                                            *)
(***************************************************************************)
VARIABLES
    pc,        \* "boot" while the module is imported, then "serving";
               \* "handling" while a POST /predict is in the handler
    artifact,  \* what MODEL_PATH holds: NoModel (no file) or a model id
    model,     \* the global model handle: NoModel (None) or a model id
    request,   \* the body of the last POST /predict received
    resp,      \* the response sent to the last request: route, status and
               \* JSON body (NoResp until it is sent)
    locals     \* the locals of predict() when it returned

vars == <<pc, artifact, model, request, resp, locals>>

BadRequest == 400
ServerError == 500
OK == 200

NoRaster == [mode |-> "L", size |-> <<0, 0>>, bg |-> White, ink |-> White,
             col |-> 0, intact |-> FALSE, bytes |-> 0]

\* The JSON bodies a client may post: no JSON at all, a JSON array, or an
\* object whose image field is absent, null, a number or a string.  A string
\* that decodes to an image file comes with the raster of that file; one
\* that holds a file but does not decode comes with a file of each length,
\* which the handler never opens.
NeedsRaster(text) ==
    \E r \in Rasters :
        LET d == b64decode(StripPrefix(text), r.bytes) IN d.ok /\ d.file

HoldsFile(text) == \E i \in 1..Len(StripPrefix(text)) : StripPrefix(text)[i] = "img"

Unopened == {CHOOSE r \in Rasters : r.bytes = b : b \in {r.bytes : r \in Rasters}}

Requests ==
    {[json |-> j, type |-> "absent", text |-> <<>>, num |-> 0, raster |-> NoRaster] :
        j \in {"none", "array", "object"}}
    \cup
    {[json |-> "object", type |-> "null", text |-> <<>>, num |-> 0, raster |-> NoRaster]}
    \cup
    {[json |-> "object", type |-> "number", text |-> <<>>, num |-> k, raster |-> NoRaster] :
        k \in {0, 5}}
    \cup
    UNION {{[json |-> "object", type |-> "string", text |-> t, num |-> 0, raster |-> r] :
                r \in IF NeedsRaster(t) THEN Rasters
                      ELSE IF HoldsFile(t) THEN Unopened
                      ELSE {NoRaster}} : t \in Texts}

NoRequest == [json |-> "", type |-> "", text |-> <<>>, num |-> 0, raster |-> NoRaster]

NoLocals == [calls |-> <<>>, image |-> <<>>, processed_image |-> <<>>,
             predictions |-> <<>>, entries |-> <<>>]

NoResp == [route |-> "", status |-> 0, body |-> [none |-> TRUE]]

\* `image_data is None`
IsNone(req) == req.type \in {"absent", "null"}

\* `not image_data`
Falsy(req) ==
    \/ req.type \in {"absent", "null"}
    \/ req.type = "number" /\ req.num = 0
    \/ req.type = "string" /\ req.text = <<>>

ModelNotLoaded == "Model not loaded. Please train the model first."
NoImageData == "No image data provided"
NotJson == "415 Unsupported Media Type"
NoGetAttribute == "'list' object has no attribute 'get'"
NotIterable == "argument of type 'int' is not iterable"

\* The exception reported as a client error.
OnExceptionAsBadRequest(e, calls) ==
    [resp |-> [route |-> "/predict", status |-> BadRequest, body |-> [error |-> e]],
     locals |-> [NoLocals EXCEPT !.calls = calls]]

\* No handler: the exception leaves predict() and Flask answers with its own
\* error page.
OnExceptionUncaught(e, calls) ==
    [resp |-> [route |-> "/predict", status |-> ServerError,
               body |-> [html |-> "Internal Server Error"]],
     locals |-> [NoLocals EXCEPT !.calls = calls]]

\* except Exception as e: return jsonify({'error': str(e)}), 500
OnException(e, calls) ==
    [resp |-> [route |-> "/predict", status |-> ServerError, body |-> [error |-> e]],
     locals |-> [NoLocals EXCEPT !.calls = calls]]

\* The body of predict() after preprocess_image returned tensor x.
Respond(layers, image, x) ==
    LET predictions == Predictions(layers, x)
        acts == Replay(layers, 1, x, <<>>)
        predicted_digit == ArgMax(predictions)
        confidence == predictions[predicted_digit + 1]
        all_probabilities ==
            [k \in {Str(i) : i \in 0..9} |->
                predictions[(CHOOSE i \in 0..9 : Str(i) = k) + 1]]
        entries == Array([j \in 1..Len(acts) |-> Sample(acts[j].name, acts[j].act)])
    IN  [resp |->
            [route |-> "/predict", status |-> OK,
             body |-> [digit |-> predicted_digit,
                       confidence |-> confidence,
                       probabilities |-> all_probabilities,
                       network_activations |->
                           [j \in 1..Len(entries) |->
                               [layer |-> entries[j].layer,
                                activations |-> entries[j].activations]]]],
         locals |->
            [calls |-> <<"get_json", "preprocess_image", "model.predict", "layers">>,
             image |-> image, processed_image |-> x,
             predictions |-> predictions,
             entries |-> [j \in 1..Len(entries) |->
                            [layer |-> entries[j].layer, n |-> entries[j].n,
                             indices |-> entries[j].indices]]]]

\* predict() reading the body before it looks at the handle.
predictBodyFirst(m, req) ==
    IF req.json = "object" /\ Falsy(req)
    THEN [resp |-> [route |-> "/predict", status |-> BadRequest,
                    body |-> [error |-> NoImageData]],
          locals |-> [NoLocals EXCEPT !.calls = <<"get_json">>]]
    ELSE [resp |-> [route |-> "/predict", status |-> ServerError,
                    body |-> [error |-> ModelNotLoaded]],
          locals |-> NoLocals]

\* predict(): the response to one POST /predict and the handler's locals.
predict(m, req) ==
    IF m = NoModel
    THEN [resp |-> [route |-> "/predict", status |-> ServerError,
                    body |-> [error |-> ModelNotLoaded]],
          locals |-> NoLocals]
    ELSE IF req.json = "none" THEN OnException(NotJson, <<"get_json">>)
    ELSE IF req.json = "array" THEN OnException(NoGetAttribute, <<"get_json">>)
    ELSE IF Falsy(req)
    THEN [resp |-> [route |-> "/predict", status |-> BadRequest,
                    body |-> [error |-> NoImageData]],
          locals |-> [NoLocals EXCEPT !.calls = <<"get_json">>]]
    ELSE IF req.type = "number"
    THEN OnException(NotIterable, <<"get_json", "preprocess_image">>)
    ELSE LET p == preprocess_image(req.text, req.raster)
         IN  IF ~p.ok THEN OnException(p.errmsg, <<"get_json", "preprocess_image">>)
             ELSE Respond(Artifacts[m], p.image, p.tensor)

\* predict() reads the handle and the body and changes nothing: its result
\* for every handle and body, computed once.
Handled == [m \in {NoModel} \cup ModelIds, req \in Requests |-> predict(m, req)]

Init ==
    /\ pc = "boot"
    /\ artifact \in {NoModel} \cup ModelIds
    /\ model = NoModel
    /\ request = NoRequest
    /\ resp = NoResp
    /\ locals = NoLocals

\* load_model(), called once while the module is imported: the handle is
\* set when MODEL_PATH exists (the warm-up prediction changes no state) and
\* left None otherwise.
LoadModel ==
    /\ pc = "boot"
    /\ \/ artifact # NoModel /\ model' = artifact
       \/ artifact = NoModel /\ model' = model
    /\ pc' = "serving"
    /\ UNCHANGED <<artifact, request, resp, locals>>

\* train_model.py, run as its own process: saves create_model()'s network
\* under MODEL_PATH.
Train ==
    /\ artifact' = 1
    /\ UNCHANGED <<pc, model, request, resp, locals>>

\* A client posts a body to /predict.
Post ==
    /\ pc = "serving"
    /\ \E req \in Requests : request' = req
    /\ pc' = "handling"
    /\ resp' = NoResp
    /\ locals' = NoLocals
    /\ UNCHANGED <<artifact, model>>

\* predict() loading the model when it finds the handle unset.
PredictReloading ==
    /\ pc = "handling"
    /\ model' = IF model = NoModel THEN artifact ELSE model
    /\ resp' = Handled[model', request].resp
    /\ locals' = Handled[model', request].locals
    /\ pc' = "serving"
    /\ UNCHANGED <<artifact, request>>

\* predict(): the handler of POST /predict, run to its return.
Predict ==
    /\ pc = "handling"
    /\ resp' = Handled[model, request].resp
    /\ locals' = Handled[model, request].locals
    /\ pc' = "serving"
    /\ UNCHANGED <<artifact, model, request>>

\* GET /health
Health ==
    /\ pc = "serving"
    /\ resp' = [route |-> "/health", status |-> OK,
                body |-> [status |-> "healthy", model_loaded |-> model # NoModel]]
    /\ request' = NoRequest
    /\ locals' = NoLocals
    /\ UNCHANGED <<pc, artifact, model>>

\* GET /model-architecture: the picture by visualkeras, else by plot_model,
\* else the error of the fallback.
ModelArchitecture ==
    /\ pc = "serving"
    /\ \/ /\ model = NoModel
          /\ resp' = [route |-> "/model-architecture", status |-> ServerError,
                      body |-> [error |-> "Model not loaded"]]
       \/ /\ model # NoModel
          /\ \E drawn \in {"visualkeras", "plot_model"} :
               resp' = [route |-> "/model-architecture", status |-> OK,
                        body |-> [png |-> drawn]]
       \/ /\ model # NoModel
          /\ resp' = [route |-> "/model-architecture", status |-> ServerError,
                      body |-> [error |-> "plot_model failed"]]
    /\ request' = NoRequest
    /\ locals' = NoLocals
    /\ UNCHANGED <<pc, artifact, model>>

\* GET /
Index ==
    /\ pc = "serving"
    /\ resp' = [route |-> "/", status |-> OK, body |-> [html |-> "index.html"]]
    /\ request' = NoRequest
    /\ locals' = NoLocals
    /\ UNCHANGED <<pc, artifact, model>>

Next ==
    \/ LoadModel
    \/ Train
    \/ Post
    \/ Predict
    \/ Health
    \/ ModelArchitecture
    \/ Index

Spec == Init /\ [][Next]_vars

(***************************************************************************)
(* Properties.                                                             *)
(***************************************************************************)
Range(f) == {f[i] : i \in DOMAIN f}
Loaded == pc = "serving" /\ model # NoModel
IsPredict == resp.route = "/predict"
Success == IsPredict /\ resp.status = 200
StringImage == request.json = "object" /\ request.type = "string" /\ request.text # <<>>

\* The image field decodes, with Python's lenient decoder, to a whole image
\* file.
\* The base64 data characters of the payload of a request: one for each
\* "A", and four for every three bytes of the file for each "img".
RECURSIVE CountData(_, _)
CountData(s, bytes) ==
    IF s = <<>> THEN 0
    ELSE CountData(Tail(s), bytes)
         + (CASE Head(s) = "A" -> 1
              [] Head(s) = "img" -> (bytes \div 3) * 4
              [] OTHER -> 0)

DataChars(req) == CountData(StripPrefix(req.text), req.raster.bytes)

DecodesToImage ==
    LET d == b64decode(StripPrefix(request.text), request.raster.bytes)
    IN  d.ok /\ d.file /\ request.raster.intact

\* The positions in model.layers of the layers whose name holds 'dense' or
\* 'flatten', for each network of Artifacts.
ExpectedCaptured == <<<<6, 8, 10>>, <<1, 2, 4, 5>>, <<2, 5>>>>

\* The output of the j-th captured layer for the image of the last request.
OutputOf(j) ==
    Forward(Artifacts[model], ExpectedCaptured[model][j], locals.processed_image)

\* C1: with the handle unset every POST /predict is answered 500 with an
\* error field, whatever the body (a body without image field included), and
\* GET /health reports model_loaded false.
C1_ModelUnset ==
    (pc = "serving" /\ model = NoModel) =>
        /\ IsPredict => resp.status = 500 /\ "error" \in DOMAIN resp.body
        /\ resp.route = "/health" => resp.body.model_loaded = FALSE

C1_Witness ==
    /\ pc = "serving" /\ model = NoModel /\ IsPredict
    /\ request.json = "object" /\ request.type = "absent"
    /\ resp.status = 500 /\ resp.body.error = ModelNotLoaded

\* C2: with the model loaded, a JSON object without image field (absent,
\* null or empty) is answered 400 with an error field, and neither
\* preprocess_image nor model.predict is called for it.
C2_NoImageField ==
    (/\ Loaded /\ IsPredict /\ request.json = "object"
     /\ \/ request.type \in {"absent", "null"}
        \/ request.type = "string" /\ request.text = <<>>)
    => /\ resp.status = 400
       /\ "error" \in DOMAIN resp.body
       /\ "preprocess_image" \notin Range(locals.calls)
       /\ "model.predict" \notin Range(locals.calls)
       /\ locals.predictions = <<>>

C2_Witness ==
    /\ Loaded /\ IsPredict /\ request.json = "object"
    /\ request.type = "string" /\ request.text = <<>>
    /\ resp.status = 400

\* C3: with the model loaded, an image string that does not decode to an
\* image (b64decode raises on its padding or length, or the bytes it yields
\* are no image) is answered 500 with a JSON body holding only a non-empty
\* error message: the exception is caught in the handler, and nothing of a
\* prediction is returned.
C3_MalformedPayload ==
    (Loaded /\ IsPredict /\ StringImage /\ ~DecodesToImage)
    => /\ resp.status = 500
       /\ DOMAIN resp.body = {"error"}
       /\ resp.body.error # ""
       /\ locals.predictions = <<>>

C3_Witness ==
    /\ Loaded /\ IsPredict /\ StringImage
    /\ ~b64decode(StripPrefix(request.text), request.raster.bytes).ok
    /\ request.raster.bytes = 93
    /\ resp.status = 500 /\ resp.body.error = InvalidLength(125)

\* C4 as claimed: a decode failure of the preprocessor is answered 400.
C4_DecodeFailureIs400 ==
    (Loaded /\ IsPredict /\ StringImage /\ ~DecodesToImage) => resp.status = 400

\* C4, amended: a decode failure of the preprocessor is answered 500 with the
\* message of the exception; the only 400 of /predict is the one for a
\* missing or empty image field.
C4_DecodeFailureIs500 ==
    (Loaded /\ IsPredict) =>
        /\ resp.status = 400 <=> (request.json = "object" /\ Falsy(request))
        /\ (StringImage /\ ~DecodesToImage) =>
              /\ resp.status = 500
              /\ resp.body.error \in
                    {IncorrectPadding, CannotIdentify, Truncated,
                     InvalidLength(DataChars(request))}

C4_Witness ==
    /\ Loaded /\ IsPredict /\ StringImage
    /\ b64decode(StripPrefix(request.text), request.raster.bytes).ok
    /\ resp.status = 500 /\ resp.body.error = CannotIdentify

\* C5: in a successful response digit is an index 0..9 of a largest score,
\* the lowest such index; confidence is probabilities[str(digit)]; and
\* probabilities has exactly the keys "0".."9", holding the scores in class
\* order.
C5_ArgMax ==
    Success =>
        LET scores == Predictions(Artifacts[model], locals.processed_image)
            d == resp.body.digit
        IN  /\ d \in 0..9
            /\ \A i \in 0..9 : scores[i + 1] <= scores[d + 1]
            /\ \A i \in 0..(d - 1) : scores[i + 1] < scores[d + 1]
            /\ DOMAIN resp.body.probabilities =
                   {"0", "1", "2", "3", "4", "5", "6", "7", "8", "9"}
            /\ \A i \in 0..9 : resp.body.probabilities[Str(i)] = scores[i + 1]
            /\ resp.body.confidence = resp.body.probabilities[Str(d)]

\* A success whose largest score is held by more than one class, the first
\* of them not class 0.
C5_Witness ==
    /\ Success
    /\ resp.body.digit > 0
    /\ \E i \in (resp.body.digit + 1)..9 :
          locals.predictions[i + 1] = resp.body.confidence

\* C6: for every captured layer, with n the length of its output without the
\* batch dimension, flattened: 64 entries are returned when n > 64, and the n
\* values themselves, in order, when n <= 64.
C6_SampleCount ==
    Success =>
        \A j \in 1..Len(resp.body.network_activations) :
            LET out == OutputOf(j)
                n   == Prod(Tail(out.shape))
                got == resp.body.network_activations[j].activations
            IN  /\ n > 64 => Len(got) = 64
                /\ n <= 64 => got = Array([k \in 1..n |-> out.data[k]])

\* A success with a layer longer than 64, one of exactly 64 and a shorter one.
C6_Witness ==
    /\ Success
    /\ \E j \in 1..Len(locals.entries) : locals.entries[j].n > 64
    /\ \E j \in 1..Len(locals.entries) :
          /\ locals.entries[j].n = 64
          /\ Len(resp.body.network_activations[j].activations) = 64
    /\ \E j \in 1..Len(locals.entries) :
          /\ locals.entries[j].n = 10
          /\ Len(resp.body.network_activations[j].activations) = 10

\* C7: the tensor preprocess_image returns has shape (1,28,28,1) and every
\* value is 1 - p/255 for the pixel p of the resized grey image (numerator
\* 255 - p over 255): within [0,1], white to 0 and black to 1, inverted once.
C7_Preprocess ==
    Success =>
        /\ locals.processed_image.shape = <<1, 28, 28, 1>>
        /\ Len(locals.processed_image.data) = 28 * 28
        /\ Len(locals.image) = 28 * 28
        /\ \A i \in 1..(28 * 28) :
              /\ locals.image[i] \in 0..255
              /\ locals.processed_image.data[i] = 255 - locals.image[i]
              /\ locals.processed_image.data[i] \in 0..255

\* A success on black ink over a white canvas: both 0.0 and 1.0 are in the
\* tensor.
C7_Witness ==
    /\ Success
    /\ \E i \in 1..(28 * 28) :
          locals.image[i] = 255 /\ locals.processed_image.data[i] = 0
    /\ \E i \in 1..(28 * 28) :
          locals.image[i] = 0 /\ locals.processed_image.data[i] = 255

\* C8: the trace has one entry per layer whose name holds 'dense' or
\* 'flatten', in layer order and no other; the values of an entry are those
\* of that layer's output when all layers are applied in sequence to the
\* preprocessed tensor.  For create_model's network: flatten (576 values),
\* dense (64), dense_1 (10).
C8_ActivationTrace ==
    Success =>
        LET layers == Artifacts[model]
            want   == ExpectedCaptured[model]
            got    == resp.body.network_activations
        IN  /\ Len(got) = Len(want)
            /\ \A j \in 1..Len(want) :
                  /\ got[j].layer = layers[want[j]].name
                  /\ locals.entries[j].n = Prod(Tail(OutputOf(j).shape))
                  /\ got[j].activations =
                        Array([k \in 1..Len(locals.entries[j].indices) |->
                                  OutputOf(j).data[locals.entries[j].indices[k] + 1]])
            /\ model = 1 =>
                  /\ [j \in 1..Len(got) |-> got[j].layer] =
                        <<<<"f", "l", "a", "t", "t", "e", "n">>,
                          <<"d", "e", "n", "s", "e">>,
                          <<"d", "e", "n", "s", "e", "_", "1">>>>
                  /\ [j \in 1..Len(got) |-> locals.entries[j].n] = <<576, 64, 10>>

\* A success of create_model's network on an image with ink: three entries,
\* the first sampled from the 576 values of flatten.
C8_Witness ==
    /\ Success
    /\ model = 1
    /\ Len(resp.body.network_activations) = 3
    /\ locals.entries[1].n = 576
    /\ Len(resp.body.network_activations[1].activations) = 64
    /\ \E i \in 1..(28 * 28) : locals.image[i] = 0

\* C9: once load_model has run, no request changes the model handle, the
\* process never goes back to loading, and /health reports the handle as it
\* was left by load_model: unset stays unset even when the artifact appears.
C9_HandleReadOnly ==
    [][/\ pc # "boot" => model' = model /\ pc' # "boot"
       /\ (pc # "boot" /\ resp'.route = "/health") =>
              resp'.body.model_loaded = (model # NoModel)]_vars

\* The handle unset, the artifact written since, and /health asked after it.
C9_Witness ==
    /\ pc = "serving" /\ model = NoModel /\ artifact # NoModel
    /\ resp.route = "/health" /\ resp.body.model_loaded = FALSE

\* C10 as claimed: position k of a sample of n > 64 values is
\* floor(k*(n-1)/63), the first 0, the last n-1, strictly increasing.
C10_ExactFloor ==
    Success =>
        \A j \in 1..Len(locals.entries) :
            LET n == locals.entries[j].n
                idx == locals.entries[j].indices
            IN  n > 64 =>
                  /\ Len(idx) = 64
                  /\ \A k \in 0..63 : idx[k + 1] = (k * (n - 1)) \div 63
                  /\ idx[1] = 0 /\ idx[64] = n - 1
                  /\ \A k \in 1..63 : idx[k] < idx[k + 1]

\* C10, amended: position k is the integer part of the binary64 product
\* k * ((n-1)/63): it is floor(k*(n-1)/63), or one less where k*(n-1)/63 is a
\* whole number (0 < k < 63); the first is 0, the last n-1, all lie in
\* 0..n-1 and they increase strictly.
C10_FloatFloor ==
    Success =>
        \A j \in 1..Len(locals.entries) :
            LET n == locals.entries[j].n
                idx == locals.entries[j].indices
            IN  n > 64 =>
                  /\ Len(idx) = 64
                  /\ \A k \in 0..63 :
                        \/ idx[k + 1] = (k * (n - 1)) \div 63
                        \/ /\ idx[k + 1] = ((k * (n - 1)) \div 63) - 1
                           /\ (k * (n - 1)) % 63 = 0
                           /\ k \in 1..62
                  /\ idx[1] = 0 /\ idx[64] = n - 1
                  /\ \A k \in 1..64 : idx[k] \in 0..(n - 1)
                  /\ \A k \in 1..63 : idx[k] < idx[k + 1]

\* A success with a layer of 154 values: 21 * 153 / 63 = 51, and position 21
\* is 50.
C10_Witness ==
    /\ Success
    /\ \E j \in 1..Len(locals.entries) :
          /\ locals.entries[j].n = 154
          /\ locals.entries[j].indices[22] = 50
          /\ locals.entries[j].indices[64] = 153

====
